---- MODULE Spec2Model ----
(***************************************************************************)
(* Model of TT.py, the Flask timetable application: the session gate, the  *)
(* teacher roster, the timetable generator and the viewer/exporter, over   *)
(* the three tables of timetable.db.                                       *)
(*                                                                         *)
(* Strings the code inspects character by character (teacher names and     *)
(* subjects, which are stripped) are sequences of one-character strings;   *)
(* messages are sequences of string fragments, built by concatenation as   *)
(* the f-strings build them.                                               *)
(***************************************************************************)
EXTENDS Integers, Sequences, FiniteSets, TLC

VARIABLES
    session,        \* Flask session: the value of session['user'], or NoUser
    users,          \* table users: set of [username, password (hash)]
    teachers,       \* table teachers: set of [id, name, subject]
    nextId,         \* sqlite_sequence of teachers (AUTOINCREMENT never reuses an id)
    timetable,      \* table timetable: set of [class_name, slot, teacher_name]
    req,            \* the form of the last request answered by a one-step handler
    resp,           \* the last response sent
    pc,             \* generate_timetable_process: where the request in flight stands
    teachers_data,  \* its local teachers_data (the rows it read)
    solution,       \* the solver's values, (class, period) -> teacher id
    lastSchedule,   \* history: the rows the last successful generation wrote
    replaced        \* history: that generation came after an earlier successful one

store == <<users, teachers, nextId, timetable>>
gen == <<pc, teachers_data, solution, lastSchedule, replaced>>
vars == <<session, users, teachers, nextId, timetable, req, resp,
          pc, teachers_data, solution, lastSchedule, replaced>>

----------------------------------------------------------------------------
(* Bounds *)

\* teachers ids handed out by AUTOINCREMENT stop at this value
MaxTeacherId == 6
\* at most this many ids handed out so far belong to no teacher any more
MaxDeleted == 1
\* the solver's search is explored over the assignments
\*   (class i, period p) |-> lo + (shift + a*i + b*p) mod (hi - lo + 1)
\* with shift in 0..MaxShift and strides a, b in 0..MaxStride
MaxShift == 0
\* the forms with every shape of input use this many different names
MaxFormNames == 2
MaxStride == 1

----------------------------------------------------------------------------
(* Values *)

NoUser == "<none>"

Min(S) == CHOOSE x \in S : \A y \in S : x <= y
Max(S) == CHOOSE x \in S : \A y \in S : x >= y

\* The letters teacher names are made of; names are opaque to the code apart
\* from equality and surrounding whitespace, so new names enter in alphabetical
\* order: the i-th name ever used is <<Letters[i]>>.
Letters == <<"a", "b", "c", "d", "e", "f", "g", "h", "i", "j">>

Whitespace == {" "}

\* str.strip(): drop leading and trailing whitespace, keep the inside
RECURSIVE LStrip(_)
LStrip(s) ==
    IF s # <<>> /\ Head(s) \in Whitespace THEN LStrip(Tail(s)) ELSE s

RECURSIVE RStrip(_)
RStrip(s) ==
    IF s # <<>> /\ s[Len(s)] \in Whitespace
    THEN RStrip(SubSeq(s, 1, Len(s) - 1))
    ELSE s

Strip(s) == RStrip(LStrip(s))

\* 'key' in request.form
Has(form, key) == key \in DOMAIN form
\* not request.form.get(key): an absent key (None) and "" are both falsy
Falsy(form, key) == ~Has(form, key) \/ form[key] = ""

\* a response: which route answered, the HTTP status, the message shown
\* (error or success text, or the redirect target) and the data rendered
Response(route, code, kind, msg, data) ==
    [route |-> route, status |-> code, kind |-> kind, msg |-> msg, data |-> data]

RedirectTo(route, target) == Response(route, 302, "redirect", <<target>>, <<>>)

NoForm == <<>>

----------------------------------------------------------------------------
(* werkzeug.security *)

\* generate_password_hash: method, salt and the digest of salt and password;
\* the digest is an ideal (collision-free) hash
Digest(salt, password) == <<"digest", salt, password>>
generate_password_hash(salt, password) ==
    [method |-> "scrypt", salt |-> salt, digest |-> Digest(salt, password)]
check_password_hash(pwhash, password) ==
    pwhash.digest = Digest(pwhash.salt, password)

----------------------------------------------------------------------------
(* init_db *)

Init ==
    /\ session = NoUser
    /\ users = {[username |-> "admin",
                 password |-> generate_password_hash("s1", "admin")]}
    /\ teachers = {}
    /\ nextId = 1
    /\ timetable = {}
    /\ req = NoForm
    /\ resp = Response("init", 0, "none", <<>>, <<>>)
    /\ pc = "idle"
    /\ teachers_data = {}
    /\ solution = <<>>
    /\ lastSchedule = {}
    /\ replaced = FALSE

----------------------------------------------------------------------------
(* connect_db: sqlite3.connect may fail; the handler then sees None *)

ConnectOutcomes == {TRUE, FALSE}
\* the database file is in place: every connection succeeds
Connected == {TRUE}

----------------------------------------------------------------------------
(* Route 1: login *)

\* plain forms: the administrator with the right and with a wrong password
PlainLoginForms ==
    {[username |-> "admin", password |-> pw] : pw \in {"admin", "bob"}}
\* the same with empty and missing fields
LoginFields == {"", "admin", "bob"}
FullLoginForms ==
    UNION {[S -> LoginFields] : S \in SUBSET {"username", "password"}}

MsgRequired == <<"Username and password are required.">>
MsgInvalidCredentials == <<"Invalid Credentials.">>
MsgDbFailed == <<"Database connection failed.">>

UserRows(username) == {u \in users : u.username = username}

\* mutant: an unknown username is told apart from a wrong password
LoginPostLeaks(form, dbOk) ==
    /\ req' = form
    /\ IF Falsy(form, "username") \/ Falsy(form, "password")
       THEN /\ resp' = Response("login", 200, "error", MsgRequired, <<>>)
            /\ UNCHANGED session
       ELSE IF ~dbOk
       THEN /\ resp' = Response("login", 200, "error", MsgDbFailed, <<>>)
            /\ UNCHANGED session
       ELSE IF UserRows(form["username"]) = {}
       THEN /\ resp' = Response("login", 200, "error", <<"Unknown user.">>, <<>>)
            /\ UNCHANGED session
       ELSE IF \E u \in UserRows(form["username"]) :
                   check_password_hash(u.password, form["password"])
       THEN /\ session' = form["username"]
            /\ resp' = RedirectTo("login", "dashboard")
       ELSE /\ resp' = Response("login", 200, "error", MsgInvalidCredentials, <<>>)
            /\ UNCHANGED session
    /\ UNCHANGED <<users, teachers, nextId, timetable, gen>>

LoginPost(form, dbOk) ==
    /\ req' = form
    /\ IF Falsy(form, "username") \/ Falsy(form, "password")
       THEN /\ resp' = Response("login", 200, "error", MsgRequired, <<>>)
            /\ UNCHANGED session
       ELSE IF ~dbOk
       THEN /\ resp' = Response("login", 200, "error", MsgDbFailed, <<>>)
            /\ UNCHANGED session
       ELSE IF \E u \in UserRows(form["username"]) :
                   check_password_hash(u.password, form["password"])
       THEN /\ session' = form["username"]
            /\ resp' = RedirectTo("login", "dashboard")
       ELSE /\ resp' = Response("login", 200, "error", MsgInvalidCredentials, <<>>)
            /\ UNCHANGED session
    /\ UNCHANGED <<users, teachers, nextId, timetable, gen>>

Login(forms, conns) ==
    \E form \in forms, dbOk \in conns : LoginPost(form, dbOk)

(* logout *)
Logout ==
    /\ session' = NoUser
    /\ req' = NoForm
    /\ resp' = RedirectTo("logout", "login")
    /\ UNCHANGED <<users, teachers, nextId, timetable, gen>>

----------------------------------------------------------------------------
(* Dashboard *)

MsgNeverGenerated == <<"Never generated">>
MsgGenerated == <<"timestamp">>

\* SELECT MAX(timestamp) FROM timetable is NULL exactly when the table is empty
LastGenerated == IF timetable = {} THEN MsgNeverGenerated ELSE MsgGenerated

Dashboard(conns) ==
    /\ req' = NoForm
    /\ IF session = NoUser
       THEN resp' = RedirectTo("dashboard", "login")
       ELSE \E dbOk \in conns :
            IF ~dbOk
            THEN resp' = Response("dashboard", 200, "error", MsgDbFailed,
                                  [number_of_teachers |-> "N/A",
                                   last_generated_timetable |-> <<"Error fetching data">>])
            ELSE resp' = Response("dashboard", 200, "page", <<>>,
                                  [number_of_teachers |-> Cardinality(teachers),
                                   last_generated_timetable |-> LastGenerated])
    /\ UNCHANGED <<session, users, teachers, nextId, timetable, gen>>

----------------------------------------------------------------------------
(* Route 2 & 3: add / delete teacher *)

\* Names typed into the forms: the names on the roster and one that has not
\* been used yet (a teacher who left is not entered again).
NewName == <<Letters[Min({nextId, MaxTeacherId + 1})]>>
TypedNames == {t.name : t \in teachers} \cup {NewName}

\* plain forms: a name and a subject, or a name to delete
PlainTeacherForms ==
    {[name |-> n, subject |-> <<"m">>] : n \in TypedNames}
    \cup {[delete_name |-> n] : n \in TypedNames}

\* the same with the inputs the handler has to clean or refuse: empty and
\* whitespace-only fields, padded names, forms with missing or extra fields
FormNames == {<<Letters[i]>> : i \in 1..MaxFormNames}
Padded(names) == names \cup {<<" ">> \o n \o <<" ">> : n \in names} \cup {<<>>, <<" ">>}
SubjectInputs == {<<>>, <<" ">>, <<"m">>}
FullTeacherForms ==
    {[name |-> n, subject |-> <<"m">>] : n \in Padded(FormNames)}
    \cup {[name |-> <<"a">>, subject |-> sub] : sub \in SubjectInputs}
    \cup {[delete_name |-> n] : n \in Padded(FormNames)}
    \cup {[name |-> <<"a">>],
          [name |-> <<"a">>, subject |-> <<"m">>, delete_name |-> <<"a">>]}

\* sqlite3.Error raised by a statement or its commit (disk, lock): the
\* handler reports it and the connection closes without committing
StatementOutcomes == {"ok", "error"}
\* the database file is in place: every statement succeeds
Executed == {"ok"}

MsgNameSubjectRequired == <<"Teacher name and subject are required.">>
MsgDeleteRequired == <<"Teacher name to delete is required.">>
MsgAdded(name) == <<"Teacher '">> \o name \o <<"' added successfully!">>
MsgAlreadyExists(name) == <<"Teacher '">> \o name \o <<"' already exists.">>
MsgAddError == <<"Error adding teacher: ", "e">>
MsgDeleted(name) == <<"Teacher '">> \o name \o <<"' deleted successfully!">>
MsgNotFound(name) == <<"Teacher '">> \o name \o <<"' not found.">>
MsgDeleteError == <<"Error deleting teacher: ", "e">>

\* ids handed out that belong to no teacher any more
Deleted == (nextId - 1) - Cardinality(teachers)

TeacherNames(rows) == {t.name : t \in rows}

\* position of a character in the collation: whitespace before the letters
CharRank(c) == IF c \in Whitespace THEN 0
               ELSE CHOOSE i \in 1..Len(Letters) : Letters[i] = c

RECURSIVE NameLess(_, _)
NameLess(a, b) ==
    IF b = <<>> THEN FALSE
    ELSE IF a = <<>> THEN TRUE
    ELSE IF Head(a) # Head(b) THEN CharRank(Head(a)) < CharRank(Head(b))
    ELSE NameLess(Tail(a), Tail(b))

\* SELECT name, subject FROM teachers ORDER BY name ASC
RECURSIVE RosterByName(_)
RosterByName(rows) ==
    IF rows = {} THEN <<>>
    ELSE LET first == CHOOSE t \in rows :
                        \A u \in rows \ {t} : NameLess(t.name, u.name)
         IN <<[name |-> first.name, subject |-> first.subject]>>
            \o RosterByName(rows \ {first})

\* the page: the roster as it is after the request, and the two messages
TeacherPage(kind, msg, rows) ==
    Response("modify_teacher", 200, kind, msg, RosterByName(rows))

\* mutant: the name is inserted as typed, not stripped
AddTeacherNoStrip(form, outcome) ==
    LET name == form["name"]
        subject == Strip(form["subject"])
    IN IF name = <<>> \/ subject = <<>>
       THEN /\ resp' = TeacherPage("error", MsgNameSubjectRequired, teachers)
            /\ UNCHANGED <<teachers, nextId>>
       ELSE IF name \in TeacherNames(teachers)
       THEN /\ resp' = TeacherPage("error", MsgAlreadyExists(name), teachers)
            /\ UNCHANGED <<teachers, nextId>>
       ELSE IF outcome = "error"
       THEN /\ resp' = TeacherPage("error", MsgAddError, teachers)
            /\ UNCHANGED <<teachers, nextId>>
       ELSE /\ nextId <= MaxTeacherId
            /\ teachers' = teachers \cup
                   {[id |-> nextId, name |-> name, subject |-> subject]}
            /\ nextId' = nextId + 1
            /\ resp' = TeacherPage("success", MsgAdded(name), teachers')

AddTeacher(form, outcome) ==
    LET name == Strip(form["name"])
        subject == Strip(form["subject"])
    IN IF name = <<>> \/ subject = <<>>
       THEN /\ resp' = TeacherPage("error", MsgNameSubjectRequired, teachers)
            /\ UNCHANGED <<teachers, nextId>>
       ELSE IF name \in TeacherNames(teachers)
       THEN /\ resp' = TeacherPage("error", MsgAlreadyExists(name), teachers)
            /\ UNCHANGED <<teachers, nextId>>
       ELSE IF outcome = "error"
       THEN /\ resp' = TeacherPage("error", MsgAddError, teachers)
            /\ UNCHANGED <<teachers, nextId>>
       ELSE /\ nextId <= MaxTeacherId
            /\ teachers' = teachers \cup
                   {[id |-> nextId, name |-> name, subject |-> subject]}
            /\ nextId' = nextId + 1
            /\ resp' = TeacherPage("success", MsgAdded(name), teachers')

\* mutant: rowcount is not looked at, a delete of nothing reports success
DeleteTeacherNoRowcount(form, outcome) ==
    LET delete_name == Strip(form["delete_name"])
        hit == {t \in teachers : t.name = delete_name}
    IN IF delete_name = <<>>
       THEN /\ resp' = TeacherPage("error", MsgDeleteRequired, teachers)
            /\ UNCHANGED <<teachers, nextId>>
       ELSE IF outcome = "error"
       THEN /\ resp' = TeacherPage("error", MsgDeleteError, teachers)
            /\ UNCHANGED <<teachers, nextId>>
       ELSE /\ hit # {} => Deleted < MaxDeleted
            /\ teachers' = teachers \ hit
            /\ resp' = TeacherPage("success", MsgDeleted(delete_name), teachers')
            /\ UNCHANGED nextId

DeleteTeacher(form, outcome) ==
    LET delete_name == Strip(form["delete_name"])
        hit == {t \in teachers : t.name = delete_name}
    IN IF delete_name = <<>>
       THEN /\ resp' = TeacherPage("error", MsgDeleteRequired, teachers)
            /\ UNCHANGED <<teachers, nextId>>
       ELSE IF outcome = "error"
       THEN /\ resp' = TeacherPage("error", MsgDeleteError, teachers)
            /\ UNCHANGED <<teachers, nextId>>
       ELSE IF hit # {}
       THEN /\ Deleted < MaxDeleted
            /\ teachers' = teachers \ hit
            /\ resp' = TeacherPage("success", MsgDeleted(delete_name), teachers')
            /\ UNCHANGED nextId
       ELSE /\ resp' = TeacherPage("error", MsgNotFound(delete_name), teachers)
            /\ UNCHANGED <<teachers, nextId>>

ModifyTeacherPost(form, dbOk, outcome) ==
    /\ req' = form
    /\ IF ~dbOk
       THEN /\ resp' = Response("modify_teacher", 200, "error", MsgDbFailed, <<>>)
            /\ UNCHANGED <<teachers, nextId>>
       ELSE IF Has(form, "name") /\ Has(form, "subject")
       THEN AddTeacher(form, outcome)
       ELSE IF Has(form, "delete_name")
       THEN DeleteTeacher(form, outcome)
       ELSE /\ resp' = TeacherPage("page", <<>>, teachers)
            /\ UNCHANGED <<teachers, nextId>>

\* mutant: the session is not looked at
ModifyTeacherUngated(forms, conns, outcomes) ==
    /\ \/ \E form \in forms, dbOk \in conns, outcome \in outcomes :
              ModifyTeacherPost(form, dbOk, outcome)
       \/ /\ req' = NoForm
          /\ resp' = TeacherPage("page", <<>>, teachers)
          /\ UNCHANGED <<teachers, nextId>>
    /\ UNCHANGED <<session, users, timetable, gen>>

ModifyTeacher(forms, conns, outcomes) ==
    /\ IF session = NoUser
       THEN /\ req' = NoForm
            /\ resp' = RedirectTo("modify_teacher", "login")
            /\ UNCHANGED <<teachers, nextId>>
       ELSE \/ \E form \in forms, dbOk \in conns, outcome \in outcomes :
                  ModifyTeacherPost(form, dbOk, outcome)
            \/ /\ req' = NoForm                      \* GET
               /\ resp' = TeacherPage("page", <<>>, teachers)
               /\ UNCHANGED <<teachers, nextId>>
    /\ UNCHANGED <<session, users, timetable, gen>>

----------------------------------------------------------------------------
(* Route 4 (POST): generate_timetable_process *)

classes == <<"MCA I", "MCA II", "MSC I", "MSC II">>
periods == 1..5
Slots == (1..Len(classes)) \X periods

MsgUnauthorized == <<"Unauthorized">>
MsgNoTeachers ==
    <<"No teachers registered. Please add teachers to generate a timetable.">>
MsgNotEnoughPerPeriod ==
    <<"Not enough unique teachers to assign a different teacher to each class for every period.">>
MsgNotEnoughPerClass(class_name) ==
    <<"Not enough unique teachers for class '", class_name,
      "' to have a different teacher for each period.">>
MsgDbFailedSaving == <<"Database connection failed for saving.">>
MsgGenerated0 == <<"Timetable generated successfully!">>

SolverStatuses ==
    {"OPTIMAL", "FEASIBLE", "INFEASIBLE", "MODEL_INVALID", "UNKNOWN", "OTHER"}

SolverErrorMessage(st) ==
    IF st = "INFEASIBLE"
    THEN <<"The current set of teachers and classes makes it impossible to generate a timetable that satisfies all constraints. Please check the number of teachers or simplify constraints.">>
    ELSE IF st = "MODEL_INVALID"
    THEN <<"The timetable model itself is invalid. This indicates an issue with constraint formulation.">>
    ELSE IF st = "UNKNOWN"
    THEN <<"The solver could not determine a solution within the given time limit. Try increasing the time limit or simplifying the problem.">>
    ELSE <<"An unexpected error occurred during timetable generation.">>

JsonError(code, msg) == Response("generate_timetable_process", code, "error", msg, <<>>)

\* teachers_map and teacher_ids of the rows read
teacher_ids(rows) == {t.id : t \in rows}
teachers_map(rows) == [i \in teacher_ids(rows) |-> (CHOOSE t \in rows : t.id = i).name]

Digits == <<"0", "1", "2", "3", "4", "5", "6", "7", "8", "9">>
UnknownTeacher(id) == <<"Unknown Teacher ID: ", Digits[id + 1]>>

\* teachers_map.get(teacher_id, f"Unknown Teacher ID: {teacher_id}")
TeacherNameOf(rows, id) ==
    IF id \in teacher_ids(rows) THEN teachers_map(rows)[id] ELSE UnknownTeacher(id)

\* the request is answered: its locals are gone
Answer(response) ==
    /\ resp' = response
    /\ req' = NoForm
    /\ pc' = "idle"
    /\ teachers_data' = {}
    /\ solution' = <<>>

\* the request enters: session check, connect, SELECT id, name, subject, close
GenRequest ==
    /\ pc = "idle"
    /\ IF session = NoUser
       THEN Answer(JsonError(401, MsgUnauthorized))
       ELSE \E dbOk \in ConnectOutcomes :
            IF ~dbOk
            THEN Answer(JsonError(500, MsgDbFailed))
            ELSE /\ teachers_data' = teachers
                 /\ pc' = "model"
                 /\ UNCHANGED <<req, resp, solution>>
    /\ UNCHANGED <<session, store, lastSchedule, replaced>>

\* the two counts the model is built under
EnoughPerPeriod(ids) == Cardinality(ids) >= Len(classes)
\* mutant: the second count is taken against the classes too
EnoughPerClassAsPerPeriod(ids) == Cardinality(ids) >= Len(classes)
EnoughPerClass(ids) == Cardinality(ids) >= Cardinality(periods)

\* empty roster, then the model: variables and the two constraint families,
\* each guarded by a count of the distinct ids
GenBuildModel ==
    /\ pc = "model"
    /\ LET ids == teacher_ids(teachers_data)
       IN IF teachers_data = {}
          THEN Answer(JsonError(400, MsgNoTeachers))
          ELSE IF ~EnoughPerPeriod(ids)
          THEN Answer(JsonError(400, MsgNotEnoughPerPeriod))
          ELSE IF ~EnoughPerClass(ids)
          THEN Answer(JsonError(400, MsgNotEnoughPerClass(classes[1])))
          ELSE /\ pc' = "solve"
               /\ UNCHANGED <<req, resp, teachers_data, solution>>
    /\ UNCHANGED <<session, store, lastSchedule, replaced>>

\* NewIntVar(min(teacher_ids), max(teacher_ids), ...): every value between
\* the smallest and the largest id
VarDomain(ids) == Min(ids)..Max(ids)

\* AddAllDifferent over the classes of one period, for every period
DifferentPerPeriod(g) ==
    \A p \in periods : \A c1, c2 \in 1..Len(classes) :
        c1 # c2 => g[<<c1, p>>] # g[<<c2, p>>]

\* AddAllDifferent over the periods of one class, for every class
DifferentPerClass(g) ==
    \A c \in 1..Len(classes) : \A p1, p2 \in periods :
        p1 # p2 => g[<<c, p1>>] # g[<<c, p2>>]

\* the assignments the search is explored over (not all of them satisfy the
\* constraints: a stride of 0 repeats a teacher)
Candidates(ids) ==
    LET lo == Min(ids)
        n == Max(ids) - Min(ids) + 1
    IN {[sl \in Slots |-> lo + ((shift + a * (sl[1] - 1) + b * (sl[2] - 1)) % n)] :
          shift \in 0..MaxShift, a \in 0..MaxStride, b \in 0..MaxStride}

\* what solver.Solve may return as a solution of the model
Solutions(ids) ==
    {g \in Candidates(ids) :
        /\ \A sl \in Slots : g[sl] \in VarDomain(ids)
        /\ DifferentPerPeriod(g)
        /\ DifferentPerClass(g)}

\* mutant: the old rows are deleted before the status is tested
GenSolveDeletesFirst ==
    /\ pc = "solve"
    /\ timetable' = {}
    /\ \E st \in SolverStatuses :
        IF st \in {"OPTIMAL", "FEASIBLE"}
        THEN /\ \E g \in Solutions(teacher_ids(teachers_data)) : solution' = g
             /\ pc' = "save"
             /\ UNCHANGED <<req, resp, teachers_data>>
        ELSE Answer(JsonError(500, SolverErrorMessage(st)))
    /\ UNCHANGED <<session, users, teachers, nextId, lastSchedule, replaced>>

\* solver.Solve(model) and the test of its status. The status is the solver's
\* to choose; values exist for OPTIMAL and FEASIBLE, and every other status is
\* answered with its message.
GenSolve ==
    /\ pc = "solve"
    /\ \E st \in SolverStatuses :
        IF st \in {"OPTIMAL", "FEASIBLE"}
        THEN /\ \E g \in Solutions(teacher_ids(teachers_data)) : solution' = g
             /\ pc' = "save"
             /\ UNCHANGED <<req, resp, teachers_data>>
        ELSE Answer(JsonError(500, SolverErrorMessage(st)))
    /\ UNCHANGED <<session, store, lastSchedule, replaced>>

\* connect_db, DELETE FROM timetable, commit
GenSave ==
    /\ pc = "save"
    /\ \E dbOk \in ConnectOutcomes :
        IF ~dbOk
        THEN /\ Answer(JsonError(500, MsgDbFailedSaving))
             /\ UNCHANGED timetable
        ELSE /\ timetable' = {}
             /\ pc' = "insert"
             /\ UNCHANGED <<req, resp, teachers_data, solution>>
    /\ UNCHANGED <<session, users, teachers, nextId, lastSchedule, replaced>>

\* INSERT INTO timetable under UNIQUE(class_name, slot) ON CONFLICT REPLACE
InsertRow(table, row) ==
    {r \in table : ~(r.class_name = row.class_name /\ r.slot = row.slot)} \cup {row}

\* the slots in the order the two loops visit them
SlotOrder ==
    [k \in 1..(Len(classes) * Cardinality(periods)) |->
        <<((k - 1) \div Cardinality(periods)) + 1, ((k - 1) % Cardinality(periods)) + 1>>]

RECURSIVE InsertAll(_, _, _, _)
InsertAll(table, rows, g, k) ==
    IF k > Len(SlotOrder) THEN table
    ELSE LET sl == SlotOrder[k]
             row == [class_name |-> classes[sl[1]], slot |-> sl[2],
                     teacher_name |-> TeacherNameOf(rows, g[sl])]
         IN InsertAll(InsertRow(table, row), rows, g, k + 1)

\* generated_timetable_display: class name -> the names of its periods in order
Display(rows, g) ==
    [c \in {classes[i] : i \in 1..Len(classes)} |->
        LET i == CHOOSE j \in 1..Len(classes) : classes[j] = c
        IN [p \in 1..Cardinality(periods) |-> TeacherNameOf(rows, g[<<i, p>>])]]

\* mutant: the connection is closed without the second commit
GenInsertNoCommit ==
    /\ pc = "insert"
    /\ UNCHANGED timetable
    /\ Answer(Response("generate_timetable_process", 200, "success", MsgGenerated0,
                       Display(teachers_data, solution)))
    /\ lastSchedule' = timetable'
    /\ replaced' = (lastSchedule # {})
    /\ UNCHANGED <<session, users, teachers, nextId>>

\* the insert loop, commit, close, and the JSON answer
GenInsert ==
    /\ pc = "insert"
    /\ timetable' = InsertAll(timetable, teachers_data, solution, 1)
    /\ Answer(Response("generate_timetable_process", 200, "success", MsgGenerated0,
                       Display(teachers_data, solution)))
    /\ lastSchedule' = timetable'
    /\ replaced' = (lastSchedule # {})
    /\ UNCHANGED <<session, users, teachers, nextId>>

----------------------------------------------------------------------------
(* Route 4 (GET): the last generated timetable *)

None == <<"None">>

\* rows reshaped: class name -> five entries, None where no row has the slot
Grid(table) ==
    [c \in {r.class_name : r \in table} |->
        [p \in 1..5 |->
            IF \E r \in table : r.class_name = c /\ r.slot = p
            THEN (CHOOSE r \in table : r.class_name = c /\ r.slot = p).teacher_name
            ELSE None]]

ViewTimetable(conns) ==
    /\ req' = NoForm
    /\ IF session = NoUser
       THEN resp' = RedirectTo("generate_timetable", "login")
       ELSE \E dbOk \in conns :
            IF ~dbOk
            THEN resp' = Response("generate_timetable", 200, "error", MsgDbFailed, <<>>)
            ELSE resp' = Response("generate_timetable", 200, "page", <<>>, Grid(timetable))
    /\ UNCHANGED <<session, store, gen>>

----------------------------------------------------------------------------
(* analyze_timetable: the grid comes from the caller, the text from the API *)

MsgNoDataForAnalysis == <<"No timetable data provided for analysis.">>
MsgAnalysisFailed == <<"Failed to get analysis from AI: ", "e">>

AnalyzeTimetable(apis) ==
    /\ req' = NoForm
    /\ IF session = NoUser
       THEN resp' = Response("analyze_timetable", 401, "error", MsgUnauthorized, <<>>)
       ELSE \E given \in BOOLEAN, apiOk \in apis :
            IF ~given
            THEN resp' = Response("analyze_timetable", 400, "error", MsgNoDataForAnalysis, <<>>)
            ELSE IF ~apiOk
            THEN resp' = Response("analyze_timetable", 500, "error", MsgAnalysisFailed, <<>>)
            ELSE resp' = Response("analyze_timetable", 200, "analysis", <<"analysis_text">>, <<>>)
    /\ UNCHANGED <<session, store, gen>>

----------------------------------------------------------------------------
(* Route 5: export *)

MsgDbFailedExport == <<"Database connection failed for export.">>
MsgNoDataToExport == <<"No timetable data to export.">>
MsgExported == <<"Timetable exported successfully to ", "timetable.xlsx", "!">>
MsgExportError == <<"Error exporting timetable: ", "e">>

\* pivot_table(index class_name, columns slot, values teacher_name, 'first')
Pivot(table) ==
    [c \in {r.class_name : r \in table} |->
        [p \in {r.slot : r \in {q \in table : q.class_name = c}} |->
            (CHOOSE r \in table : r.class_name = c /\ r.slot = p).teacher_name]]

ExportTimetable(conns) ==
    /\ req' = NoForm
    /\ IF session = NoUser
       THEN resp' = RedirectTo("export_timetable", "login")
       ELSE \E dbOk \in conns, writeOk \in conns :
            IF ~dbOk
            THEN resp' = Response("export_timetable", 500, "error", MsgDbFailedExport, <<>>)
            ELSE IF timetable = {}
            THEN resp' = Response("export_timetable", 404, "error", MsgNoDataToExport, <<>>)
            ELSE IF ~writeOk
            THEN resp' = Response("export_timetable", 500, "error", MsgExportError, <<>>)
            ELSE resp' = Response("export_timetable", 200, "success", MsgExported,
                                  Pivot(timetable))
    /\ UNCHANGED <<session, store, gen>>

----------------------------------------------------------------------------
(* The application with the database in place and plain forms: rosters grow *)
(* to the size the generator needs, and a generation in flight interleaves *)
(* with every other request.                                               *)

Next ==
    \/ Login(PlainLoginForms, Connected)
    \/ Logout
    \/ Dashboard(Connected)
    \/ ModifyTeacher(PlainTeacherForms, Connected, Executed)
    \/ ViewTimetable(Connected)
    \/ AnalyzeTimetable(Connected)
    \/ ExportTimetable(Connected)
    \/ GenRequest
    \/ GenBuildModel
    \/ GenSolve
    \/ GenSave
    \/ GenInsert

Spec == Init /\ [][Next]_vars

(* Every route with every shape of form and every failure of the database. *)
(* The forms name MaxFormNames teachers, fewer than a timetable needs, so  *)
(* a generation request ends at the counts.                                *)

NextForms ==
    \/ Login(FullLoginForms, ConnectOutcomes)
    \/ Logout
    \/ Dashboard(ConnectOutcomes)
    \/ ModifyTeacher(FullTeacherForms, ConnectOutcomes, StatementOutcomes)
    \/ ViewTimetable(ConnectOutcomes)
    \/ AnalyzeTimetable(ConnectOutcomes)
    \/ ExportTimetable(ConnectOutcomes)
    \/ GenRequest
    \/ GenBuildModel

SpecForms == Init /\ [][NextForms]_vars
----------------------------------------------------------------------------
(* Properties *)

GenRoute == "generate_timetable_process"

\* a step of a one-step handler of the route (the request in flight stands still)
HandlerStep(route) == pc' = pc /\ resp'.route = route

\* the step in which a generation request is answered with success
GenSucceeds == pc = "insert" /\ pc' = "idle"

\* the step in which a generation request is answered with an error
GenFails == pc' = "idle" /\ resp'.route = GenRoute /\ resp'.kind = "error"

\* the rows a returned grid stands for
RowsOf(display) ==
    {[class_name |-> c, slot |-> p, teacher_name |-> display[c][p]] :
        c \in DOMAIN display, p \in 1..5}

ClassNames == {"MCA I", "MCA II", "MSC I", "MSC II"}

\* one row for each of the 4 classes and the periods 1..5, and nothing else
OneRowPerSlot(table) ==
    /\ Cardinality(table) = 20
    /\ \A c \in ClassNames, p \in 1..5 :
          Cardinality({r \in table : r.class_name = c /\ r.slot = p}) = 1

NoClashInPeriod(table) ==
    \A r1, r2 \in table :
        (r1.slot = r2.slot /\ r1.class_name # r2.class_name)
            => r1.teacher_name # r2.teacher_name

NoRepeatInClass(table) ==
    \A r1, r2 \in table :
        (r1.class_name = r2.class_name /\ r1.slot # r2.slot)
            => r1.teacher_name # r2.teacher_name

\* C1: whenever a generation succeeds, the returned grid and the persisted
\* rows hold exactly one teacher of the roster read per (class, period) for the
\* 4 classes and periods 1..5, no name is in two classes in the same period and
\* no name is twice in one class.
C1_OneTeacherPerSlot ==
    [][GenSucceeds =>
        /\ timetable' = RowsOf(resp'.data)
        /\ OneRowPerSlot(timetable')
        /\ \A r \in timetable' : r.teacher_name \in TeacherNames(teachers_data)
        /\ NoClashInPeriod(timetable')
        /\ NoRepeatInClass(timetable')]_vars

\* C2: a roster of fewer than 5 teachers (0 included) is answered with a 400
\* error at the counts, the request never reaches the solver, and the timetable
\* is as it was.
C2_TooFewRejected ==
    /\ [](pc \in {"solve", "save", "insert"}
            => Cardinality(teacher_ids(teachers_data)) >= 5)
    /\ [][(pc = "model" /\ pc' # "model" /\ Cardinality(teachers_data) < 5)
            => /\ GenFails
               /\ resp'.status = 400
               /\ resp'.msg \in {MsgNoTeachers, MsgNotEnoughPerPeriod,
                                 MsgNotEnoughPerClass("MCA I")}
               /\ timetable' = timetable]_vars

C2_Witness ==
    /\ pc = "idle"
    /\ resp = JsonError(400, MsgNotEnoughPerClass("MCA I"))
    /\ Cardinality(teachers) = 4
    /\ timetable # {}

\* C3: after a successful generation the table holds exactly the 20 rows of
\* that generation's grid, one per (class, slot), also when an earlier
\* generation had filled the table.
C3_OnlyLatestEntries ==
    (pc = "idle" /\ resp.route = GenRoute /\ resp.kind = "success")
        => /\ timetable = RowsOf(resp.data)
           /\ OneRowPerSlot(timetable)

C3_Witness ==
    /\ pc = "idle" /\ resp.route = GenRoute /\ resp.kind = "success"
    /\ replaced
    /\ \E r \in timetable : r.teacher_name = <<"f">>

\* C4: the schedule is replaced atomically: at every moment the table holds
\* the complete schedule of the last successful generation (nothing before the
\* first), never an empty or a mixed table in between.
C4_AtomicReplace == timetable = lastSchedule

\* C5: a generation request answered with an error has not touched the
\* timetable table, and the four solver failures have four distinct messages.
SolverFailures == {"INFEASIBLE", "MODEL_INVALID", "UNKNOWN", "OTHER"}

C5_ErrorsWriteNothing ==
    [][/\ GenFails => (pc # "insert" /\ timetable' = timetable /\ timetable = lastSchedule)
       /\ (GenFails /\ pc = "solve")
            => /\ resp'.status = 500
               /\ \E st \in SolverFailures :
                    /\ resp'.msg = SolverErrorMessage(st)
                    /\ \A other \in SolverFailures \ {st} :
                          resp'.msg # SolverErrorMessage(other)]_vars

C5_Witness ==
    /\ pc = "idle"
    /\ resp = JsonError(500, SolverErrorMessage("UNKNOWN"))
    /\ timetable # {}

\* C6: without a user in the session every route but login answers with the
\* redirect to login (401 Unauthorized on the two JSON routes) and leaves
\* teachers and timetable alone; the session gets a user only by a login with
\* a stored name and its password; logout leaves no user.
Unauthenticated(r) ==
    \/ /\ r.route \in {GenRoute, "analyze_timetable"}
       /\ r.status = 401 /\ r.msg = MsgUnauthorized
    \/ /\ r.route \in {"dashboard", "modify_teacher", "generate_timetable",
                       "export_timetable", "logout"}
       /\ r.status = 302 /\ r.msg = <<"login">>

C6_GateHolds ==
    [][/\ (session = NoUser /\ pc' = pc /\ resp'.route # "login")
            => /\ Unauthenticated(resp')
               /\ teachers' = teachers /\ nextId' = nextId
               /\ timetable' = timetable
               /\ session' = NoUser
       /\ (session = NoUser /\ pc = "idle") => pc' = "idle"
       /\ (session' # session /\ session' # NoUser)
            => /\ resp'.route = "login" /\ resp'.kind = "redirect"
               /\ \E u \in users :
                    /\ u.username = session'
                    /\ req'["username"] = session'
                    /\ check_password_hash(u.password, req'["password"])
       /\ HandlerStep("logout") => session' = NoUser]_vars

C6_Witness ==
    /\ session = NoUser
    /\ resp = RedirectTo("modify_teacher", "login")
    /\ teachers # {}
    /\ timetable # {}

\* C7 as stated: every failing login (missing or empty field, unknown
\* username, wrong password) shows the same invalid-credentials message and
\* leaves the session as it was.
LoginFails == HandlerStep("login") /\ resp'.kind = "error"

C7_OneGenericMessage ==
    [][(LoginFails /\ resp'.msg # MsgDbFailed)
            => (resp'.msg = MsgInvalidCredentials /\ session' = session)]_vars

\* C7 as the code has it: an unknown username and a wrong password show the
\* same message, "Invalid Credentials."; a missing or empty field shows
\* "Username and password are required."; no failing login changes the session.
C7_GenericForCredentials ==
    [][LoginFails
            => /\ session' = session
               /\ IF Falsy(req', "username") \/ Falsy(req', "password")
                  THEN resp'.msg = MsgRequired
                  ELSE resp'.msg \in {MsgInvalidCredentials, MsgDbFailed}]_vars

C7_Witness ==
    /\ resp.route = "login" /\ resp.msg = MsgInvalidCredentials
    /\ Has(req, "username") /\ req["username"] = "bob"
    /\ session = NoUser

\* C8: a modify_teacher POST that reports an error leaves the teachers table
\* as it was; adding a name that is on the roster once stripped reports
\* "already exists", deleting one that is not reports "not found", and empty
\* fields are refused (each unless the database fails first).
IsAdd(form) == Has(form, "name") /\ Has(form, "subject")
IsDelete(form) == ~IsAdd(form) /\ Has(form, "delete_name")

C8_ErrorsLeaveRoster ==
    [][HandlerStep("modify_teacher") =>
        /\ resp'.kind = "error" => (teachers' = teachers /\ nextId' = nextId)
        /\ (IsAdd(req') /\ (Strip(req'["name"]) = <<>> \/ Strip(req'["subject"]) = <<>>))
             => /\ resp'.kind = "error"
                /\ resp'.msg \in {MsgNameSubjectRequired, MsgDbFailed}
        /\ (IsAdd(req') /\ Strip(req'["name"]) \in TeacherNames(teachers)
                        /\ Strip(req'["subject"]) # <<>>)
             => /\ resp'.kind = "error"
                /\ resp'.msg \in {MsgAlreadyExists(Strip(req'["name"])), MsgDbFailed}
        /\ (IsDelete(req') /\ Strip(req'["delete_name"]) = <<>>)
             => /\ resp'.kind = "error"
                /\ resp'.msg \in {MsgDeleteRequired, MsgDbFailed}
        /\ (IsDelete(req') /\ Strip(req'["delete_name"]) # <<>>
                           /\ Strip(req'["delete_name"]) \notin TeacherNames(teachers))
             => /\ resp'.kind = "error"
                /\ resp'.msg \in {MsgNotFound(Strip(req'["delete_name"])),
                                  MsgDeleteError, MsgDbFailed}]_vars

C8_Witness ==
    /\ resp.route = "modify_teacher"
    /\ resp.msg = MsgAlreadyExists(<<"a">>)
    /\ Has(req, "name") /\ req["name"] = <<" ", "a", " ">>
    /\ \E t \in teachers : t.name = <<"a">>

\* C9 as stated: deleting a name that is not on the roster and exporting an
\* empty timetable are both answered with a not-found message and a status
\* outside 200..299.
DeleteOfAbsent ==
    /\ HandlerStep("modify_teacher")
    /\ IsDelete(req')
    /\ Strip(req'["delete_name"]) # <<>>
    /\ Strip(req'["delete_name"]) \notin TeacherNames(teachers)
    /\ resp'.msg \notin {MsgDeleteError, MsgDbFailed}

ExportOfNothing ==
    /\ HandlerStep("export_timetable")
    /\ session # NoUser
    /\ timetable = {}
    /\ resp'.msg # MsgDbFailedExport

C9_NotFoundNonSuccess ==
    [][/\ DeleteOfAbsent
            => /\ resp'.msg = MsgNotFound(Strip(req'["delete_name"]))
               /\ resp'.status \notin 200..299
       /\ ExportOfNothing
            => /\ resp'.msg = MsgNoDataToExport
               /\ resp'.status \notin 200..299]_vars

\* C9 as the code has it: the delete is answered with the page (status 200)
\* carrying the not-found message as its error; the export with status 404 and
\* "No timetable data to export."
C9_NotFoundReported ==
    [][/\ DeleteOfAbsent
            => /\ resp'.msg = MsgNotFound(Strip(req'["delete_name"]))
               /\ resp'.kind = "error"
               /\ resp'.status = 200
               /\ teachers' = teachers
       /\ ExportOfNothing
            => /\ resp'.msg = MsgNoDataToExport
               /\ resp'.kind = "error"
               /\ resp'.status = 404]_vars

C9_Witness ==
    /\ resp.route = "modify_teacher"
    /\ resp.status = 200
    /\ resp.msg = MsgNotFound(<<"b">>)
    /\ Has(req, "delete_name") /\ req["delete_name"] = <<" ", "b", " ">>
    /\ teachers # {}

\* C10: every decision variable takes the id of a teacher of the roster read,
\* so every name in the returned grid and in the persisted rows is the name of
\* a teacher of that roster, never the placeholder of an id without a teacher.
C10_NamesFromRoster ==
    /\ [](pc \in {"save", "insert"}
            => \A sl \in Slots : solution[sl] \in teacher_ids(teachers_data))
    /\ [][GenSucceeds =>
            \A c \in DOMAIN resp'.data : \A p \in 1..5 :
                /\ resp'.data[c][p] \in TeacherNames(teachers_data)
                /\ \E r \in timetable' :
                     /\ r.class_name = c /\ r.slot = p
                     /\ r.teacher_name \in TeacherNames(teachers_data)]_vars
====
